---- MODULE Spec2Model ----
(***************************************************************************)
(* Line movement in the prompt textarea (useHandlePromptLine).             *)
(*                                                                         *)
(* The buffer is a JavaScript string, modelled as a sequence of one-       *)
(* character strings; "\n" is the line separator.  Line numbers, columns   *)
(* and offsets are 0-based as in the source; TLA+ sequences are 1-based,   *)
(* so an array read a[i] of the source is a[i + 1] here.                   *)
(***************************************************************************)
EXTENDS Integers, Sequences, FiniteSets, TLC

\* ---------------------------------------------------------------- bounds
\* Longest buffer (in characters) the user has typed before the first key event.
MaxLen == 4
\* Number of events (key events and animation frames) in a run.
MaxOps == 3

\* ------------------------------------------------------- program constants
\* Tailwind "leading-6" on the textarea: 1.5rem = 24px per rendered line.
LineHeightPx == 24
\* rows={2}: the textarea never renders fewer than two rows.
MinRows == 2
\* adjustTextareaHeight: const maxHeight = 180.
MaxHeightPx == 180

NL == "\n"
\* The characters a buffer is made of.
Alphabet == {"a", NL}
\* Characters String.prototype.trim() strips.
WhiteSpace == {" ", "\t", NL}

Min(a, b) == IF a <= b THEN a ELSE b
Max(a, b) == IF a >= b THEN a ELSE b

RECURSIVE Gcd(_, _)
Gcd(a, b) == IF b = 0 THEN a ELSE Gcd(b, a % b)

\* All strings over Alphabet of length at most n.
RECURSIVE StringsUpTo(_)
StringsUpTo(n) ==
  IF n = 0 THEN {<<>>}
  ELSE LET shorter == StringsUpTo(n - 1)
       IN shorter \cup {Append(s, c) : s \in {t \in shorter : Len(t) = n - 1}, c \in Alphabet}

\* ------------------------------------------------------- string primitives
\* String.prototype.split("\n"): the pieces between separators; always at
\* least one piece, "" splits to [""].
RECURSIVE SplitFrom(_, _, _, _)
SplitFrom(s, i, cur, acc) ==
  IF i > Len(s) THEN Append(acc, cur)
  ELSE IF s[i] = NL THEN SplitFrom(s, i + 1, <<>>, Append(acc, cur))
  ELSE SplitFrom(s, i + 1, Append(cur, s[i]), acc)

Split(s) == SplitFrom(s, 1, <<>>, <<>>)

\* Array.prototype.join("\n").
RECURSIVE Join(_)
Join(ls) ==
  IF Len(ls) = 0 THEN <<>>
  ELSE IF Len(ls) = 1 THEN ls[1]
  ELSE ls[1] \o <<NL>> \o Join(Tail(ls))

\* String.prototype.substring(0, end) for 0 <= end <= length.
Substring0(s, end) == SubSeq(s, 1, end)

\* String.prototype.trim().
RECURSIVE TrimLeft(_)
TrimLeft(s) ==
  IF Len(s) = 0 THEN s
  ELSE IF s[1] \in WhiteSpace THEN TrimLeft(Tail(s)) ELSE s

RECURSIVE TrimRight(_)
TrimRight(s) ==
  IF Len(s) = 0 THEN s
  ELSE IF s[Len(s)] \in WhiteSpace THEN TrimRight(SubSeq(s, 1, Len(s) - 1)) ELSE s

Trim(s) == TrimRight(TrimLeft(s))

\* Array.prototype.splice(pos, deleteCount, ...items) on a copy: the array
\* that results (0-based pos).
Splice(arr, pos, deleteCount, items) ==
  SubSeq(arr, 1, pos) \o items \o SubSeq(arr, pos + deleteCount + 1, Len(arr))

\* Array.prototype.slice(from, to) (0-based, to exclusive).
Slice(arr, from, to) == SubSeq(arr, from + 1, to)

\* ------------------------------------------------------------------ state
VARIABLES
  value,              \* the message: React state, and the textarea's text
  selectionStart,     \* textarea.selectionStart
  selectionEnd,       \* textarea.selectionEnd
  scrollTop,          \* textarea.scrollTop, the fraction <<numerator, denominator>> of a pixel count
  rafQueue,           \* callbacks handed to requestAnimationFrame and not yet run
  undoGroupId,        \* the undoGroupId ref
  lastScrollPosition, \* the lastScrollPosition ref
  onChangeCalls,      \* number of calls of the onChange callback so far
  callLog,            \* the calls made on the host and on the textarea, in order
  keyLog,             \* the key events handed to handleKeyDown, where they are kept
  hist                \* the events so far, each with the state it started from

vars == <<value, selectionStart, selectionEnd, scrollTop, rafQueue, undoGroupId,
          lastScrollPosition, onChangeCalls, callLog, keyLog, hist>>

\* ------------------------------------------- moveSelectedLine, synchronous part
\* Mutant of LineNumberOf: the character before the offset is left out, so a
\* caret at the start of a line is put on the line before.
LineNumberOfBeforeCaret(v, pos) == Len(Split(Substring0(v, Max(pos - 1, 0)))) - 1

\* value.substring(0, pos).split("\n").length - 1
LineNumberOf(v, pos) == Len(Split(Substring0(v, pos))) - 1

\* lines.reduce((acc, line, i) => acc.push(i === 0 ? 0 : acc[i-1] + lines[i-1].length + 1))
RECURSIVE LineOffsetsAcc(_, _)
LineOffsetsAcc(ls, acc) ==
  IF Len(acc) = Len(ls) THEN acc
  ELSE LET i == Len(acc)
       IN LineOffsetsAcc(ls, Append(acc, IF i = 0 THEN 0 ELSE acc[i] + Len(ls[i]) + 1))

LineOffsets(ls) == LineOffsetsAcc(ls, <<>>)

\* The early return: a move (not a copy) past the first or the last line.
IsBoundary(direction, shouldCopy, startLineNumber, endLineNumber, lineCount) ==
  /\ ~shouldCopy
  /\ \/ direction = "up" /\ startLineNumber = 0
     \/ direction = "down" /\ endLineNumber = lineCount - 1

\* Mutant of SwapIndex: the line below the block is counted from its first line.
SwapIndexFromStart(direction, startLineNumber, endLineNumber) ==
  IF direction = "up" THEN startLineNumber - 1 ELSE startLineNumber + 1

SwapIndex(direction, startLineNumber, endLineNumber) ==
  IF direction = "up" THEN startLineNumber - 1 ELSE endLineNumber + 1

\* Mutant of CopyLines: slice(startLineNumber, endLineNumber) leaves out the
\* last selected line.
CopyLinesShortSlice(lines, direction, startLineNumber, endLineNumber) ==
  IF startLineNumber # endLineNumber
  THEN LET selectedLines == Slice(lines, startLineNumber, endLineNumber)
           insertPosition == IF direction = "up" THEN startLineNumber ELSE endLineNumber + 1
       IN Splice(lines, insertPosition, 0, selectedLines)
  ELSE LET insertPosition == IF direction = "up" THEN startLineNumber ELSE startLineNumber + 1
       IN Splice(lines, insertPosition, 0, <<lines[startLineNumber + 1]>>)

\* if (shouldCopy) { ... }: the lines after a copy.
CopyLines(lines, direction, startLineNumber, endLineNumber) ==
  IF startLineNumber # endLineNumber
  THEN LET selectedLines == Slice(lines, startLineNumber, endLineNumber + 1)
           insertPosition == IF direction = "up" THEN startLineNumber ELSE endLineNumber + 1
       IN Splice(lines, insertPosition, 0, selectedLines)
  ELSE LET insertPosition == IF direction = "up" THEN startLineNumber ELSE startLineNumber + 1
       IN Splice(lines, insertPosition, 0, <<lines[startLineNumber + 1]>>)

\* Mutant of MoveLines: a block moved down is put back one line too high.
MoveLinesDownOffByOne(lines, direction, startLineNumber, endLineNumber) ==
  LET swapIndex == SwapIndex(direction, startLineNumber, endLineNumber)
  IN IF startLineNumber # endLineNumber
     THEN LET selectedLines == Slice(lines, startLineNumber, endLineNumber + 1)
              rest == Splice(lines, startLineNumber, endLineNumber - startLineNumber + 1, <<>>)
          IN Splice(rest,
                    IF direction = "up" THEN swapIndex ELSE swapIndex - Len(selectedLines),
                    0, selectedLines)
     ELSE [lines EXCEPT ![startLineNumber + 1] = lines[swapIndex + 1],
                        ![swapIndex + 1] = lines[startLineNumber + 1]]

\* else { ... }: the lines after a move that is not at a boundary.
MoveLines(lines, direction, startLineNumber, endLineNumber) ==
  LET swapIndex == SwapIndex(direction, startLineNumber, endLineNumber)
  IN IF startLineNumber # endLineNumber
     THEN LET selectedLines == Slice(lines, startLineNumber, endLineNumber + 1)
              rest == Splice(lines, startLineNumber, endLineNumber - startLineNumber + 1, <<>>)
          IN Splice(rest,
                    IF direction = "up" THEN swapIndex ELSE swapIndex - Len(selectedLines) + 1,
                    0, selectedLines)
     ELSE [lines EXCEPT ![startLineNumber + 1] = lines[swapIndex + 1],
                        ![swapIndex + 1] = lines[startLineNumber + 1]]

\* Mutant of NewLines: shouldCopy is not looked at, every operation copies.
NewLinesAlwaysCopy(lines, direction, shouldCopy, startLineNumber, endLineNumber) ==
  CopyLines(lines, direction, startLineNumber, endLineNumber)

NewLines(lines, direction, shouldCopy, startLineNumber, endLineNumber) ==
  IF shouldCopy THEN CopyLines(lines, direction, startLineNumber, endLineNumber)
  ELSE MoveLines(lines, direction, startLineNumber, endLineNumber)

\* What the requestAnimationFrame callback closes over.
Closure(v, selStart, selEnd, direction, shouldCopy) ==
  LET lines == Split(v)
      startLineNumber == LineNumberOf(v, selStart)
      endLineNumber == LineNumberOf(v, selEnd)
      lineOffsets == LineOffsets(lines)
  IN [direction |-> direction,
      shouldCopy |-> shouldCopy,
      startLineNumber |-> startLineNumber,
      endLineNumber |-> endLineNumber,
      isMultiLineSelection |-> startLineNumber # endLineNumber,
      selectionStartOffset |-> selStart - lineOffsets[startLineNumber + 1],
      selectionEndOffset |-> selEnd - lineOffsets[endLineNumber + 1],
      newLines |-> NewLines(lines, direction, shouldCopy, startLineNumber, endLineNumber)]

\* The closure field of an event that scheduled and ran no callback.
NoClosure ==
  [direction |-> "none", shouldCopy |-> FALSE, startLineNumber |-> 0, endLineNumber |-> 0,
   isMultiLineSelection |-> FALSE, selectionStartOffset |-> 0, selectionEndOffset |-> 0,
   newLines |-> <<>>]

\* ------------------------------ moveSelectedLine, requestAnimationFrame callback
\* Mutant of NewStartLine: a move up leaves the selection start on its old line.
NewStartLineMoveUpStays(direction, shouldCopy, startLineNumber) ==
  IF shouldCopy
  THEN (IF direction = "up" THEN startLineNumber ELSE startLineNumber + 1)
  ELSE (IF direction = "up" THEN startLineNumber ELSE startLineNumber + 1)

NewStartLine(direction, shouldCopy, startLineNumber) ==
  IF shouldCopy
  THEN (IF direction = "up" THEN startLineNumber ELSE startLineNumber + 1)
  ELSE (IF direction = "up" THEN startLineNumber - 1 ELSE startLineNumber + 1)

\* Mutant of NewEndLine: a copy up shifts the selection end like a copy down.
NewEndLineCopyUpShifts(direction, shouldCopy, endLineNumber) ==
  IF shouldCopy
  THEN endLineNumber + 1
  ELSE (IF direction = "up" THEN endLineNumber - 1 ELSE endLineNumber + 1)

NewEndLine(direction, shouldCopy, endLineNumber) ==
  IF shouldCopy
  THEN (IF direction = "up" THEN endLineNumber ELSE endLineNumber + 1)
  ELSE (IF direction = "up" THEN endLineNumber - 1 ELSE endLineNumber + 1)

CbStartLine(cb) == NewStartLine(cb.direction, cb.shouldCopy, cb.startLineNumber)
CbEndLine(cb) == NewEndLine(cb.direction, cb.shouldCopy, cb.endLineNumber)

NewSelectionStart(cb) ==
  LineOffsets(cb.newLines)[CbStartLine(cb) + 1] + cb.selectionStartOffset

NewSelectionEnd(cb) ==
  IF cb.isMultiLineSelection
  THEN LineOffsets(cb.newLines)[CbEndLine(cb) + 1] + cb.selectionEndOffset
  ELSE NewSelectionStart(cb)

\* Mutant of FinalSelectionStart: the start is not clamped to its line.
FinalSelectionStartUnclamped(cb) == NewSelectionStart(cb)

\* Math.min(newSelectionStart, newLineOffsets[newStartLine] + newLines[newStartLine].length)
FinalSelectionStart(cb) ==
  Min(NewSelectionStart(cb),
      LineOffsets(cb.newLines)[CbStartLine(cb) + 1] + Len(cb.newLines[CbStartLine(cb) + 1]))

FinalSelectionEnd(cb) ==
  Min(NewSelectionEnd(cb),
      LineOffsets(cb.newLines)[CbEndLine(cb) + 1] + Len(cb.newLines[CbEndLine(cb) + 1]))

\* HTMLTextAreaElement.setSelectionRange(start, end) on a text of length len:
\* end is capped at the length, start at end.  <<selectionStart, selectionEnd>>.
SetSelectionRange(start, end, len) ==
  LET e == Min(end, len) IN <<Min(start, e), e>>

\* The textarea's geometry: every line is one row of LineHeightPx, at least
\* MinRows rows are laid out, and adjustTextareaHeight caps the height.
ScrollHeight(v) == LineHeightPx * Max(Len(Split(v)), MinRows)
ClientHeight(v) == Min(ScrollHeight(v), MaxHeightPx)

\* A fraction in lowest terms.
Reduce(num, den) == LET g == Gcd(num, den) IN <<num \div g, den \div g>>

\* Mutant of NewScrollTop: the margin is one line, not two.
NewScrollTopOneLineMargin(cb, v, st) ==
  LET unit == Len(cb.newLines) * st[2]
      currentScrollTop == st[1] * Len(cb.newLines)
      scrollHeight == ScrollHeight(v) * unit
      clientHeight == ClientHeight(v) * unit
      maxScroll == scrollHeight - clientHeight
      lineHeight == ScrollHeight(v) * st[2]
      targetLinePosition == lineHeight * CbStartLine(cb)
      buffer == lineHeight
  IN IF cb.direction = "up" /\ targetLinePosition - buffer < currentScrollTop
     THEN Reduce(Max(0, targetLinePosition - buffer), unit)
     ELSE IF /\ cb.direction = "down"
             /\ targetLinePosition + lineHeight + buffer > currentScrollTop + clientHeight
     THEN Reduce(Min(maxScroll, targetLinePosition - clientHeight + lineHeight + buffer), unit)
     ELSE st

\* Mutant of NewScrollTop: the position asked for on the way down is not
\* capped at maxScroll.
NewScrollTopUncapped(cb, v, st) ==
  LET unit == Len(cb.newLines) * st[2]
      currentScrollTop == st[1] * Len(cb.newLines)
      scrollHeight == ScrollHeight(v) * unit
      clientHeight == ClientHeight(v) * unit
      lineHeight == ScrollHeight(v) * st[2]
      targetLinePosition == lineHeight * CbStartLine(cb)
      buffer == lineHeight * 2
  IN IF cb.direction = "up" /\ targetLinePosition - buffer < currentScrollTop
     THEN Reduce(Max(0, targetLinePosition - buffer), unit)
     ELSE IF /\ cb.direction = "down"
             /\ targetLinePosition + lineHeight + buffer > currentScrollTop + clientHeight
     THEN Reduce(targetLinePosition - clientHeight + lineHeight + buffer, unit)
     ELSE st

\* let newScrollTop = currentScrollTop; if (...) else if (...): the scroll
\* position the callback asks for, with the text v in the textarea and
\* currentScrollTop = st.  lineHeight = scrollHeight / newLines.length need not
\* be whole, so every length is held in units of 1 / unit pixels.
NewScrollTop(cb, v, st) ==
  LET unit == Len(cb.newLines) * st[2]
      currentScrollTop == st[1] * Len(cb.newLines)
      scrollHeight == ScrollHeight(v) * unit
      clientHeight == ClientHeight(v) * unit
      maxScroll == scrollHeight - clientHeight
      lineHeight == ScrollHeight(v) * st[2]
      targetLinePosition == lineHeight * CbStartLine(cb)
      buffer == lineHeight * 2
  IN IF cb.direction = "up" /\ targetLinePosition - buffer < currentScrollTop
     THEN Reduce(Max(0, targetLinePosition - buffer), unit)
     ELSE IF /\ cb.direction = "down"
             /\ targetLinePosition + lineHeight + buffer > currentScrollTop + clientHeight
     THEN Reduce(Min(maxScroll, targetLinePosition - clientHeight + lineHeight + buffer), unit)
     ELSE st

\* --------------------------------------------------------------- handleKeyDown
Keys == {"ArrowUp", "ArrowDown", "Enter"}

\* Mutant of IsMoveKeyCombination: the platform is not looked at, Meta counts
\* everywhere.
IsMoveKeyCombinationAnyPlatform(key, altKey, metaKey, isMac) ==
  (metaKey \/ altKey) /\ (key = "ArrowUp" \/ key = "ArrowDown")

IsMoveKeyCombination(key, altKey, metaKey, isMac) ==
  IF isMac
  THEN (metaKey \/ altKey) /\ (key = "ArrowUp" \/ key = "ArrowDown")
  ELSE altKey /\ (key = "ArrowUp" \/ key = "ArrowDown")

\* An event of the history: what it was and the state it started from.
Event(kind, direction, shouldCopy, cb) ==
  [kind |-> kind, direction |-> direction, shouldCopy |-> shouldCopy, cb |-> cb,
   value |-> value, selectionStart |-> selectionStart, selectionEnd |-> selectionEnd,
   scrollTop |-> scrollTop, pending |-> Len(rafQueue), calls |-> onChangeCalls,
   logged |-> Len(callLog)]

\* Mutant of Schedule: no callback is scheduled while one is pending.
ScheduleUnlessPending(queue, cb) == IF queue = <<>> THEN <<cb>> ELSE queue

\* requestAnimationFrame(callback): the callback joins the pending ones.
Schedule(queue, cb) == Append(queue, cb)

\* The key event did nothing: the buffer is blank or the key is no move key.
Ignore ==
  /\ hist' = Append(hist, Event("ignored", "none", FALSE, NoClosure))
  /\ UNCHANGED <<value, selectionStart, selectionEnd, scrollTop, rafQueue, undoGroupId,
                 lastScrollPosition, onChangeCalls, callLog>>

\* Mutant of BoundaryReturn: the boundary check comes after the call of
\* onChange, which is handed the unchanged text.
BoundaryReturnAfterOnChange(direction, shouldCopy) ==
  /\ hist' = Append(hist, Event("boundary", direction, shouldCopy, NoClosure))
  /\ undoGroupId' = Len(hist) + 1
  /\ onChangeCalls' = onChangeCalls + 1
  /\ callLog' = Append(callLog, "onChange")
  /\ UNCHANGED <<value, selectionStart, selectionEnd, scrollTop, rafQueue, lastScrollPosition>>

\* The early return of moveSelectedLine: nothing is called, nothing is scheduled.
BoundaryReturn(direction, shouldCopy) ==
  /\ hist' = Append(hist, Event("boundary", direction, shouldCopy, NoClosure))
  /\ UNCHANGED <<value, selectionStart, selectionEnd, scrollTop, rafQueue,
                 undoGroupId, lastScrollPosition, onChangeCalls, callLog>>

\* moveSelectedLine(direction, shouldCopy), up to and including the call of
\* requestAnimationFrame.  onChange is setMessage: React renders the new
\* message into the textarea before the next event, and a textarea whose text
\* is replaced by a different one puts its caret at the end of the text.
\* createUndoGroup stores Date.now(); the clock is read as the number of the
\* event, the ref is written and never read.
MoveSelectedLine(direction, shouldCopy) ==
  LET lines == Split(value)
      startLineNumber == LineNumberOf(value, selectionStart)
      endLineNumber == LineNumberOf(value, selectionEnd)
  IN IF IsBoundary(direction, shouldCopy, startLineNumber, endLineNumber, Len(lines))
     THEN BoundaryReturn(direction, shouldCopy)
     ELSE LET cb == Closure(value, selectionStart, selectionEnd, direction, shouldCopy)
              newValue == Join(cb.newLines)
          IN /\ undoGroupId' = Len(hist) + 1
             /\ onChangeCalls' = onChangeCalls + 1
             /\ value' = newValue
             /\ selectionStart' = IF newValue = value THEN selectionStart ELSE Len(newValue)
             /\ selectionEnd' = IF newValue = value THEN selectionEnd ELSE Len(newValue)
             /\ rafQueue' = Schedule(rafQueue, cb)
             /\ callLog' = callLog \o <<"onChange", "requestAnimationFrame">>
             /\ hist' = Append(hist, Event("transpose", direction, shouldCopy, cb))
             /\ UNCHANGED <<scrollTop, lastScrollPosition>>

\* The body of handleKeyDown once isMoveKeyCombination is known.
HandleKeyDown(key, shiftKey, isMoveKeyCombination) ==
  IF Trim(value) = <<>> THEN Ignore
  ELSE IF isMoveKeyCombination
  THEN MoveSelectedLine(IF key = "ArrowUp" THEN "up" ELSE "down", shiftKey)
  ELSE Ignore

\* A key event, while fewer than maxOps events have happened: any key with any
\* modifiers, on either platform.
KeyDownWithin(maxOps) ==
  /\ Len(hist) < maxOps
  /\ \E key \in Keys, shiftKey \in BOOLEAN :
       \E isMoveKeyCombination \in
            {IsMoveKeyCombination(key, altKey, metaKey, isMac) :
               altKey \in BOOLEAN, metaKey \in BOOLEAN, isMac \in BOOLEAN} :
         HandleKeyDown(key, shiftKey, isMoveKeyCombination)
  /\ UNCHANGED keyLog

KeyDown == KeyDownWithin(MaxOps)

\* Mutant of FrameCalls: the scroll is issued before the selection is set.
FrameCallsScrollFirst(scrolls) ==
  IF scrolls THEN <<"scrollTo", "setSelectionRange">> ELSE <<"setSelectionRange">>

\* The calls the callback makes on the textarea, in the order of its
\* statements: setSelectionRange, then scrollTo if the position changes.
FrameCalls(scrolls) ==
  IF scrolls THEN <<"setSelectionRange", "scrollTo">> ELSE <<"setSelectionRange">>

\* Mutant of PendingCallback: the callback scheduled last is run first.
PendingCallbackNewest(queue) == queue[Len(queue)]

\* The callback the browser runs next: callbacks run in the order in which
\* requestAnimationFrame was called, and none is ever cancelled.
PendingCallback(queue) == Head(queue)

\* The browser runs the oldest pending requestAnimationFrame callback, while
\* fewer than maxOps events have happened.
AnimationFrameWithin(maxOps) ==
  /\ Len(hist) < maxOps
  /\ rafQueue # <<>>
  /\ LET cb == PendingCallback(rafQueue)
         range == SetSelectionRange(FinalSelectionStart(cb), FinalSelectionEnd(cb), Len(value))
         newScrollTop == NewScrollTop(cb, value, scrollTop)
     IN /\ rafQueue' = Tail(rafQueue)
        /\ selectionStart' = range[1]
        /\ selectionEnd' = range[2]
        /\ scrollTop' = newScrollTop
        /\ lastScrollPosition' = IF newScrollTop # scrollTop THEN newScrollTop
                                 ELSE lastScrollPosition
        /\ callLog' = callLog \o FrameCalls(newScrollTop # scrollTop)
        /\ hist' = Append(hist, Event("frame", cb.direction, cb.shouldCopy, cb))
        /\ UNCHANGED <<value, undoGroupId, onChangeCalls, keyLog>>

AnimationFrame == AnimationFrameWithin(MaxOps)

\* The user has typed some text and put the caret or a selection in it; no
\* line has been moved yet.
Init ==
  /\ value \in StringsUpTo(MaxLen)
  /\ selectionStart \in 0..Len(value)
  /\ selectionEnd \in selectionStart..Len(value)
  /\ scrollTop = <<0, 1>>
  /\ rafQueue = <<>>
  /\ undoGroupId = 0
  /\ lastScrollPosition = <<0, 1>>
  /\ onChangeCalls = 0
  /\ callLog = <<>>
  /\ keyLog = <<>>
  /\ hist = <<>>

Next == KeyDown \/ AnimationFrame

Spec == Init /\ [][Next]_vars

\* ------------------------------------------------- handleKeyDown on its own
\* Only key events, each kept in keyLog with its key, its modifiers and the
\* platform detectMacPlatform reports.
MaxKeyLen == 2
MaxKeyOps == 1

\* Mutant of HandleKeyDownLogged: a blank buffer is handled like any other.
HandleKeyDownNoBlankCheck(key, altKey, metaKey, shiftKey, isMac) ==
  /\ IF IsMoveKeyCombination(key, altKey, metaKey, isMac)
     THEN MoveSelectedLine(IF key = "ArrowUp" THEN "up" ELSE "down", shiftKey)
     ELSE Ignore
  /\ keyLog' = Append(keyLog, [key |-> key, altKey |-> altKey, metaKey |-> metaKey,
                               shiftKey |-> shiftKey, isMac |-> isMac])

\* handleKeyDown(e) with e.key, e.altKey, e.metaKey, e.shiftKey and the
\* platform given.
HandleKeyDownLogged(key, altKey, metaKey, shiftKey, isMac) ==
  /\ HandleKeyDown(key, shiftKey, IsMoveKeyCombination(key, altKey, metaKey, isMac))
  /\ keyLog' = Append(keyLog, [key |-> key, altKey |-> altKey, metaKey |-> metaKey,
                               shiftKey |-> shiftKey, isMac |-> isMac])

KeyDownLogged ==
  /\ Len(hist) < MaxKeyOps
  /\ \E key \in Keys, altKey \in BOOLEAN, metaKey \in BOOLEAN,
        shiftKey \in BOOLEAN, isMac \in BOOLEAN :
       HandleKeyDownLogged(key, altKey, metaKey, shiftKey, isMac)

InitKeys ==
  /\ value \in StringsUpTo(MaxKeyLen)
  /\ selectionStart \in 0..Len(value)
  /\ selectionEnd \in selectionStart..Len(value)
  /\ scrollTop = <<0, 1>>
  /\ rafQueue = <<>>
  /\ undoGroupId = 0
  /\ lastScrollPosition = <<0, 1>>
  /\ onChangeCalls = 0
  /\ callLog = <<>>
  /\ keyLog = <<>>
  /\ hist = <<>>

NextKeys == KeyDownLogged

SpecKeys == InitKeys /\ [][NextKeys]_vars

\* ------------------------------------------- the synchronous part on its own
\* Key events only, from every buffer and selection of Init: what
\* moveSelectedLine computes before it schedules its callback.
MaxSyncOps == 1

NextSync == KeyDownWithin(MaxSyncOps)

SpecSync == Init /\ [][NextSync]_vars

\* ---------------------------------------- operations and their deferred steps
\* Runs long enough for two operations and both callbacks, in any order the
\* browser allows, on short buffers.
MaxSeqLen == 2
MaxSeqOps == 4

InitSeq ==
  /\ value \in StringsUpTo(MaxSeqLen)
  /\ selectionStart \in 0..Len(value)
  /\ selectionEnd \in selectionStart..Len(value)
  /\ scrollTop = <<0, 1>>
  /\ rafQueue = <<>>
  /\ undoGroupId = 0
  /\ lastScrollPosition = <<0, 1>>
  /\ onChangeCalls = 0
  /\ callLog = <<>>
  /\ keyLog = <<>>
  /\ hist = <<>>

NextSeq == KeyDownWithin(MaxSeqOps) \/ AnimationFrameWithin(MaxSeqOps)

SpecSeq == InitSeq /\ [][NextSeq]_vars

\* ------------------------------------------------------------------ scrolling
\* Buffers long enough to overflow the textarea (more than MaxHeightPx of
\* lines), the caret anywhere, and the textarea scrolled by the user to any
\* multiple of half a line.
MaxScrollLines == 10
MaxScrollOps == 2

\* n lines "a".
RECURSIVE LinesOfA(_)
LinesOfA(n) == IF n = 0 THEN <<>> ELSE Append(LinesOfA(n - 1), <<"a">>)

InitScroll ==
  /\ value \in {Join(LinesOfA(n)) : n \in 1..MaxScrollLines}
  /\ selectionStart \in 0..Len(value)
  /\ selectionEnd = selectionStart
  /\ scrollTop \in {Reduce(LineHeightPx * k, 2) : k \in 0..(2 * MaxScrollLines)}
  /\ scrollTop[1] <= (ScrollHeight(value) - ClientHeight(value)) * scrollTop[2]
  /\ rafQueue = <<>>
  /\ undoGroupId = 0
  /\ lastScrollPosition = <<0, 1>>
  /\ onChangeCalls = 0
  /\ callLog = <<>>
  /\ keyLog = <<>>
  /\ hist = <<>>

NextScroll == KeyDownWithin(MaxScrollOps) \/ AnimationFrameWithin(MaxScrollOps)

SpecScroll == InitScroll /\ [][NextScroll]_vars

\* ===================================================================== claims
\* The claims speak of lines, columns and offsets of a buffer; these are
\* stated here from the text itself, not through the operators of the code.

\* Number of newlines among the first pos characters of v: the index of the
\* line an offset lies on.
LineOf(v, pos) == Cardinality({j \in 1..pos : v[j] = NL})
LastLineOf(v) == LineOf(v, Len(v))

\* Offset of the first character of line idx (0-based) of the lines ls.
RECURSIVE LineStart(_, _)
LineStart(ls, idx) ==
  IF idx = 0 THEN 0 ELSE LineStart(ls, idx - 1) + Len(ls[idx]) + 1

\* Line idx (0-based) of the lines ls.
Line(ls, idx) == ls[idx + 1]
\* Lines from..to (0-based, inclusive) of ls.
Block(ls, from, to) == SubSeq(ls, from + 1, to + 1)

\* The state event i of the history ended in.
PostValue(i) == IF i < Len(hist) THEN hist[i + 1].value ELSE value
PostStart(i) == IF i < Len(hist) THEN hist[i + 1].selectionStart ELSE selectionStart
PostEnd(i) == IF i < Len(hist) THEN hist[i + 1].selectionEnd ELSE selectionEnd
PostPending(i) == IF i < Len(hist) THEN hist[i + 1].pending ELSE Len(rafQueue)
PostCalls(i) == IF i < Len(hist) THEN hist[i + 1].calls ELSE onChangeCalls

\* Event i is a call of moveSelectedLine.
IsOperation(i) == hist[i].kind \in {"boundary", "transpose"}
IsMove(i) == IsOperation(i) /\ ~hist[i].shouldCopy
IsCopy(i) == IsOperation(i) /\ hist[i].shouldCopy
\* The lines the selection touched when event i began, and its columns.
StartLineAt(i) == LineOf(hist[i].value, hist[i].selectionStart)
EndLineAt(i) == LineOf(hist[i].value, hist[i].selectionEnd)
LinesAt(i) == Split(hist[i].value)
StartColumnAt(i) == hist[i].selectionStart - LineStart(LinesAt(i), StartLineAt(i))
EndColumnAt(i) == hist[i].selectionEnd - LineStart(LinesAt(i), EndLineAt(i))
\* Event i is a move that the boundary policy makes a no-op.
AtBoundary(i) ==
  /\ IsMove(i)
  /\ \/ hist[i].direction = "up" /\ StartLineAt(i) = 0
     \/ hist[i].direction = "down" /\ EndLineAt(i) = LastLineOf(hist[i].value)
\* Event i is the deferred step of the operation that is event i - 1, with no
\* other operation in between: the operation found no older step pending.
IsDeferredStepOf(i) ==
  /\ i >= 2
  /\ hist[i].kind = "frame"
  /\ hist[i - 1].kind = "transpose"
  /\ hist[i - 1].pending = 0

Opposite(direction) == IF direction = "up" THEN "down" ELSE "up"

\* Events i, i + 1, i + 2 are a move that is not a boundary no-op, its deferred
\* step, and a move in the opposite direction.
IsRoundTrip(i) ==
  /\ i + 2 <= Len(hist)
  /\ IsMove(i) /\ ~AtBoundary(i)
  /\ IsDeferredStepOf(i + 1)
  /\ IsMove(i + 2) /\ hist[i + 2].direction = Opposite(hist[i].direction)

\* C1: a move that is not a boundary no-op, followed by a move in the opposite
\* direction applied to the buffer and the remapped selection of the first,
\* gives back exactly the original buffer.
C1_MoveRoundTrip ==
  \A i \in 1..Len(hist) :
    IsRoundTrip(i) => PostValue(i + 2) = hist[i].value

\* C1 witness: a block of two or more lines was moved down and up again, and
\* the buffer in between differed from the original.
C1_Witness ==
  \E i \in 1..Len(hist) :
    /\ IsRoundTrip(i)
    /\ hist[i].direction = "down"
    /\ StartLineAt(i) < EndLineAt(i)
    /\ hist[i + 1].value # hist[i].value
    /\ PostValue(i + 2) = hist[i].value

\* C2: a move up with the selection starting on line 0, or a move down with the
\* selection ending on the last line, changes neither buffer nor selection,
\* does not call the change callback and schedules no deferred step.
C2_BoundaryNoOp ==
  \A i \in 1..Len(hist) :
    AtBoundary(i) =>
      /\ PostValue(i) = hist[i].value
      /\ PostStart(i) = hist[i].selectionStart
      /\ PostEnd(i) = hist[i].selectionEnd
      /\ PostCalls(i) = hist[i].calls
      /\ PostPending(i) = hist[i].pending

\* C2 witness: a move down was asked for on a one-line buffer.
C2_Witness ==
  \E i \in 1..Len(hist) :
    /\ AtBoundary(i)
    /\ hist[i].direction = "down"
    /\ LastLineOf(hist[i].value) = 0

\* C3: a copy of the k lines [startLine, endLine] gives a buffer with exactly k
\* more lines, the k inserted lines being a copy of the block placed right
\* before startLine (up) or right after endLine (down); without the inserted
\* block the buffer is the original one.
C3_CopyGrowth ==
  \A i \in 1..Len(hist) :
    IsCopy(i) =>
      LET old == LinesAt(i)
          new == Split(PostValue(i))
          s == StartLineAt(i)
          e == EndLineAt(i)
          k == e - s + 1
          at == IF hist[i].direction = "up" THEN s ELSE e + 1
      IN /\ hist[i].kind = "transpose"
         /\ Len(new) = Len(old) + k
         /\ Block(new, at, at + k - 1) = Block(old, s, e)
         /\ Block(new, 0, at - 1) \o Block(new, at + k, Len(new) - 1) = old
         /\ PostValue(i) = Join(new)

\* C3 witness: the last lines of a buffer, more than one, were copied down.
C3_Witness ==
  \E i \in 1..Len(hist) :
    /\ IsCopy(i)
    /\ hist[i].direction = "down"
    /\ StartLineAt(i) < EndLineAt(i)
    /\ EndLineAt(i) = LastLineOf(hist[i].value)
    /\ Len(Split(PostValue(i))) = Len(LinesAt(i)) + EndLineAt(i) - StartLineAt(i) + 1

\* C4: after a copy down the remapped selection covers the inserted duplicate:
\* it starts on the first inserted line at the original start column and, for
\* a multi-line selection, ends on the last inserted line at the original end
\* column.
C4_CopyDownSelectsDuplicate ==
  \A i \in 1..Len(hist) :
    (IsDeferredStepOf(i) /\ IsCopy(i - 1) /\ hist[i - 1].direction = "down") =>
      LET new == Split(hist[i].value)
          s == StartLineAt(i - 1)
          e == EndLineAt(i - 1)
          k == e - s + 1
      IN /\ PostStart(i) = LineStart(new, e + 1) + StartColumnAt(i - 1)
         /\ s < e => PostEnd(i) = LineStart(new, e + k) + EndColumnAt(i - 1)

\* C5: after the deferred step of a move or copy, newStartLine and newEndLine
\* are line indices of the new buffer and each remapped selection offset lies
\* inside the line it is mapped to.
C5_ClampSafety ==
  \A i \in 1..Len(hist) :
    IsDeferredStepOf(i) =>
      LET new == Split(hist[i].value)
          newStartLine == CbStartLine(hist[i].cb)
          newEndLine == CbEndLine(hist[i].cb)
      IN /\ newStartLine \in 0..(Len(new) - 1)
         /\ newEndLine \in 0..(Len(new) - 1)
         /\ LineStart(new, newStartLine) <= PostStart(i)
         /\ PostStart(i) <= LineStart(new, newStartLine) + Len(Line(new, newStartLine))
         /\ LineStart(new, newEndLine) <= PostEnd(i)
         /\ PostEnd(i) <= LineStart(new, newEndLine) + Len(Line(new, newEndLine))

\* C5 witness: the buffer changed and the start column of the selection was
\* past the end of the line the selection start is mapped to.
C5_Witness ==
  \E i \in 1..Len(hist) :
    /\ IsDeferredStepOf(i)
    /\ hist[i].value # hist[i - 1].value
    /\ StartColumnAt(i - 1) > Len(Line(Split(hist[i].value), CbStartLine(hist[i].cb)))
    /\ PostStart(i) = LineStart(Split(hist[i].value), CbStartLine(hist[i].cb))
                        + Len(Line(Split(hist[i].value), CbStartLine(hist[i].cb)))

\* C6: a move that is not a boundary no-op exchanges the block with the one
\* adjacent line in the move direction; the block keeps its order and every
\* other line keeps its index and content.
C6_MoveExchangesAdjacentLine ==
  \A i \in 1..Len(hist) :
    (IsMove(i) /\ ~AtBoundary(i)) =>
      LET old == LinesAt(i)
          new == Split(PostValue(i))
          s == StartLineAt(i)
          e == EndLineAt(i)
          n == Len(old)
      IN /\ hist[i].kind = "transpose"
         /\ new = IF hist[i].direction = "up"
                  THEN Block(old, 0, s - 2) \o Block(old, s, e) \o <<Line(old, s - 1)>>
                         \o Block(old, e + 1, n - 1)
                  ELSE Block(old, 0, s - 1) \o <<Line(old, e + 1)>> \o Block(old, s, e)
                         \o Block(old, e + 2, n - 1)

\* C6 witness: the first two of three lines were moved down past a third line
\* that differs from both.
C6_Witness ==
  \E i \in 1..Len(hist) :
    /\ IsMove(i) /\ ~AtBoundary(i)
    /\ hist[i].direction = "down"
    /\ StartLineAt(i) = 0 /\ EndLineAt(i) = 1
    /\ Len(LinesAt(i)) = 3
    /\ Line(LinesAt(i), 2) \notin {Line(LinesAt(i), 0), Line(LinesAt(i), 1)}
    /\ Split(PostValue(i)) = <<Line(LinesAt(i), 2), Line(LinesAt(i), 0), Line(LinesAt(i), 1)>>

\* C7: no move, boundary no-op or not, changes the number of lines of the
\* buffer.
C7_MoveKeepsLineCount ==
  \A i \in 1..Len(hist) :
    IsMove(i) => LastLineOf(PostValue(i)) = LastLineOf(hist[i].value)

\* C7 witness: two moves that changed the buffer, one after the other.
C7_Witness ==
  \E i \in 1..Len(hist) : \E j \in (i + 1)..Len(hist) :
    /\ IsMove(i) /\ PostValue(i) # hist[i].value
    /\ IsMove(j) /\ PostValue(j) # hist[j].value
    /\ LastLineOf(PostValue(j)) = LastLineOf(hist[i].value)

\* C8: after a move that is not a boundary no-op the remapped selection starts
\* on line startLine - 1 (up) or startLine + 1 (down) at the original start
\* column; a multi-line selection ends on line endLine - 1 or endLine + 1 at
\* the original end column; those lines hold the text of the original start
\* and end lines.
C8_MoveSelectionFollowsBlock ==
  \A i \in 1..Len(hist) :
    (IsDeferredStepOf(i) /\ IsMove(i - 1)) =>
      LET old == LinesAt(i - 1)
          new == Split(hist[i].value)
          s == StartLineAt(i - 1)
          e == EndLineAt(i - 1)
          d == IF hist[i - 1].direction = "up" THEN 0 - 1 ELSE 1
      IN /\ PostStart(i) = LineStart(new, s + d) + StartColumnAt(i - 1)
         /\ Line(new, s + d) = Line(old, s)
         /\ s < e => /\ PostEnd(i) = LineStart(new, e + d) + EndColumnAt(i - 1)
                     /\ Line(new, e + d) = Line(old, e)

\* C8 witness: with the caret at the start of the second of three lines, a
\* move up changed the buffer and left the caret at offset 0.
C8_Witness ==
  \E i \in 1..Len(hist) :
    /\ IsDeferredStepOf(i) /\ IsMove(i - 1)
    /\ hist[i - 1].direction = "up"
    /\ Len(LinesAt(i - 1)) = 3
    /\ StartLineAt(i - 1) = 1 /\ StartColumnAt(i - 1) = 0
    /\ hist[i - 1].selectionEnd = hist[i - 1].selectionStart
    /\ hist[i].value # hist[i - 1].value
    /\ PostStart(i) = 0 /\ PostEnd(i) = 0

\* C9: a range inside one line is remapped to a range on the target line, its
\* start and end columns kept and each clamped to the target line's length.
C9_RangeInLineStaysRange ==
  \A i \in 1..Len(hist) :
    (/\ IsDeferredStepOf(i)
     /\ StartLineAt(i - 1) = EndLineAt(i - 1)
     /\ hist[i - 1].selectionStart < hist[i - 1].selectionEnd) =>
      LET new == Split(hist[i].value)
          target == CbStartLine(hist[i].cb)
      IN /\ PostStart(i) = LineStart(new, target)
                             + Min(StartColumnAt(i - 1), Len(Line(new, target)))
         /\ PostEnd(i) = LineStart(new, target)
                           + Min(EndColumnAt(i - 1), Len(Line(new, target)))

\* C10: after a copy up the remapped selection stays on lines startLine and
\* endLine at the original columns: for a caret or a multi-line selection its
\* offsets in the new buffer are the offsets it had in the old one.
C10_CopyUpKeepsOffsets ==
  \A i \in 1..Len(hist) :
    (/\ IsDeferredStepOf(i) /\ IsCopy(i - 1) /\ hist[i - 1].direction = "up"
     /\ \/ hist[i - 1].selectionStart = hist[i - 1].selectionEnd
        \/ StartLineAt(i - 1) < EndLineAt(i - 1)) =>
      /\ PostStart(i) = hist[i - 1].selectionStart
      /\ PostEnd(i) = hist[i - 1].selectionEnd
      /\ LineOf(hist[i].value, PostStart(i)) = StartLineAt(i - 1)
      /\ LineOf(hist[i].value, PostEnd(i)) = EndLineAt(i - 1)
      /\ PostStart(i) - LineStart(Split(hist[i].value), StartLineAt(i - 1)) = StartColumnAt(i - 1)
      /\ PostEnd(i) - LineStart(Split(hist[i].value), EndLineAt(i - 1)) = EndColumnAt(i - 1)

\* C10 witness: a multi-line selection not starting on line 0 was copied up and
\* the deferred step has run.
C10_Witness ==
  \E i \in 1..Len(hist) :
    /\ IsDeferredStepOf(i) /\ IsCopy(i - 1) /\ hist[i - 1].direction = "up"
    /\ 0 < StartLineAt(i - 1) /\ StartLineAt(i - 1) < EndLineAt(i - 1)
    /\ hist[i].value # hist[i - 1].value
    /\ PostEnd(i) = hist[i - 1].selectionEnd

\* ------------------------------------------------------------------------ C11
\* A buffer with no character other than whitespace.
IsBlank(v) == \A j \in 1..Len(v) : v[j] \in WhiteSpace

\* The key of event i of a run of key events is a move or copy combination.
IsMoveOrCopyCombination(i) ==
  /\ keyLog[i].key \in {"ArrowUp", "ArrowDown"}
  /\ keyLog[i].altKey \/ (keyLog[i].isMac /\ keyLog[i].metaKey)

\* C11: on a buffer that is empty or holds only whitespace (newlines
\* included) every key event, a move or copy combination too, does nothing:
\* the transposition is not invoked, buffer and selection stay as they are,
\* onChange is not called and no callback is scheduled.
C11_BlankBufferIgnoresKeys ==
  \A i \in 1..Len(hist) :
    IsBlank(hist[i].value) =>
      /\ hist[i].kind = "ignored"
      /\ PostValue(i) = hist[i].value
      /\ PostStart(i) = hist[i].selectionStart
      /\ PostEnd(i) = hist[i].selectionEnd
      /\ PostCalls(i) = hist[i].calls
      /\ PostPending(i) = hist[i].pending

\* Alt+Shift+ArrowDown on a buffer of newlines only was ignored.
C11_Witness ==
  \E i \in 1..Len(keyLog) :
    /\ IsBlank(hist[i].value)
    /\ Len(hist[i].value) > 0
    /\ IsMoveOrCopyCombination(i)
    /\ keyLog[i].shiftKey
    /\ hist[i].kind = "ignored"

\* ------------------------------------------------------------------------ C12
\* The platform's primary modifier is held: Meta on a Mac; elsewhere Alt is
\* the only modifier of the shortcut.
PrimaryModifierHeld(k) == IF k.isMac THEN k.metaKey ELSE k.altKey

\* The handler went into the transposition (which may return at a boundary).
Triggered(i) == hist[i].kind \in {"transpose", "boundary"}

\* C12: on a buffer that is not blank a key event triggers a transposition
\* exactly when the key is ArrowUp or ArrowDown and Alt or the platform's
\* primary modifier is held; ArrowUp is Up and ArrowDown is Down, the
\* operation is a Copy exactly when Shift is held, and any other key event
\* leaves buffer and selection as they are.
C12_TriggerExactlyOnModifiedArrow ==
  \A i \in 1..Len(keyLog) :
    ~IsBlank(hist[i].value) =>
      LET k == keyLog[i]
          expected == /\ k.key \in {"ArrowUp", "ArrowDown"}
                      /\ k.altKey \/ PrimaryModifierHeld(k)
      IN /\ Triggered(i) <=> expected
         /\ expected =>
              /\ hist[i].direction = (IF k.key = "ArrowUp" THEN "up" ELSE "down")
              /\ hist[i].shouldCopy = k.shiftKey
         /\ ~expected =>
              /\ PostValue(i) = hist[i].value
              /\ PostStart(i) = hist[i].selectionStart
              /\ PostEnd(i) = hist[i].selectionEnd

\* Meta+Shift+ArrowDown on a Mac, without Alt, copied a line down.
C12_Witness ==
  \E i \in 1..Len(keyLog) :
    /\ ~IsBlank(hist[i].value)
    /\ keyLog[i].isMac /\ keyLog[i].metaKey /\ ~keyLog[i].altKey
    /\ keyLog[i].key = "ArrowDown" /\ keyLog[i].shiftKey
    /\ hist[i].kind = "transpose"
    /\ hist[i].shouldCopy /\ hist[i].direction = "down"

\* ------------------------------------------------------------------------ C13
\* Deferred steps and operations among the first i events.
FramesUpTo(i) == Cardinality({j \in 1..i : hist[j].kind = "frame"})
OperationsUpTo(i) == Cardinality({j \in 1..i : hist[j].kind = "transpose"})

\* The operation whose deferred step event i is: the n-th step belongs to the
\* n-th operation that scheduled one.
StepOwner(i) ==
  CHOOSE j \in 1..i : hist[j].kind = "transpose" /\ OperationsUpTo(j) = FramesUpTo(i)

\* Event i is the deferred step of an operation that was followed by a newer
\* operation before the step ran.
IsStaleStep(i) ==
  /\ hist[i].kind = "frame"
  /\ \E j \in (StepOwner(i) + 1)..(i - 1) : hist[j].kind = "transpose"

\* C13: when a new operation arrives before the deferred step of an earlier
\* one has run, the earlier, stale step is never executed against the
\* surface; only the newest operation's selection and scroll are applied.
C13_StaleStepNeverRuns ==
  \A i \in 1..Len(hist) : ~IsStaleStep(i)

\* C13, amended: the stale step is not cancelled.  Every operation's deferred
\* step runs, at most once and in the order the operations were issued, with
\* the values its own operation computed; none is dropped while it is
\* pending, so the newest operation's step is the last to run.
C13_StepsRunInIssueOrder ==
  /\ Len(rafQueue) = OperationsUpTo(Len(hist)) - FramesUpTo(Len(hist))
  /\ \A i \in 1..Len(hist) :
       hist[i].kind = "frame" =>
         /\ FramesUpTo(i) <= OperationsUpTo(i)
         /\ hist[i].cb = hist[StepOwner(i)].cb
         /\ PostEnd(i) = Min(FinalSelectionEnd(hist[i].cb), Len(hist[i].value))
         /\ PostStart(i) = Min(FinalSelectionStart(hist[i].cb), PostEnd(i))

\* Two operations, then both deferred steps: the first step was stale, it
\* moved the selection, and the step of the newer operation ran after it.
C13_Witness ==
  /\ rafQueue = <<>>
  /\ \E i \in 1..Len(hist) :
       /\ IsStaleStep(i)
       /\ i < Len(hist)
       /\ hist[Len(hist)].kind = "frame"
       /\ hist[i].cb # hist[Len(hist)].cb
       /\ PostStart(i) # hist[i].selectionStart

\* ------------------------------------------------------------------------ C14
\* Operations first and second were issued one after the other, no operation
\* came after them, and every pending deferred step has run.
IsSettledPair(first, second) ==
  /\ first < second
  /\ hist[first].kind = "transpose"
  /\ hist[second].kind = "transpose"
  /\ \A j \in (first + 1)..Len(hist) : j # second => hist[j].kind # "transpose"
  /\ rafQueue = <<>>

PostLogged(i) == IF i < Len(hist) THEN hist[i + 1].logged ELSE Len(callLog)
CallsOf(i) == SubSeq(callLog, hist[i].logged + 1, PostLogged(i))

\* C15: two phases.  An operation that changes the buffer hands the new
\* buffer to onChange and only schedules the selection and scroll; they are
\* applied in a later step of their own, once per operation, and in that
\* step the selection is set before a scroll is issued.
C15_CommitThenSelectThenScroll ==
  /\ Len(rafQueue) + FramesUpTo(Len(hist)) = OperationsUpTo(Len(hist))
  /\ \A i \in 1..Len(hist) :
       /\ hist[i].kind = "transpose" =>
            /\ CallsOf(i) = <<"onChange", "requestAnimationFrame">>
            /\ PostCalls(i) = hist[i].calls + 1
            /\ Split(PostValue(i)) = hist[i].cb.newLines
            /\ PostPending(i) = hist[i].pending + 1
       /\ hist[i].kind = "frame" =>
            /\ StepOwner(i) < i
            /\ hist[i].cb = hist[StepOwner(i)].cb
            /\ PostValue(i) = hist[i].value
            /\ PostCalls(i) = hist[i].calls
            /\ CallsOf(i) \in {<<"setSelectionRange">>, <<"setSelectionRange", "scrollTo">>}
       /\ hist[i].kind \in {"ignored", "boundary"} => CallsOf(i) = <<>>

\* An operation changed the buffer, and its deferred step, the next event,
\* set the selection and then scrolled.
C15_Witness ==
  \E i \in 2..Len(hist) :
    /\ hist[i].kind = "frame"
    /\ hist[i - 1].kind = "transpose"
    /\ hist[i - 1].value # hist[i].value
    /\ CallsOf(i) = <<"setSelectionRange", "scrollTo">>

\* ------------------------------------------------------------------------ C16
PostScroll(i) == IF i < Len(hist) THEN hist[i + 1].scrollTop ELSE scrollTop

\* The lengths of the deferred step i, all in units of 1 / ScrollUnit(i) pixels:
\* lineHeight is contentHeight / lineCount and the scroll position is a
\* fraction, so pixels would not do.
ScrollUnit(i) == Len(hist[i].cb.newLines) * hist[i].scrollTop[2]
ContentHeight(i) == ScrollHeight(hist[i].value) * ScrollUnit(i)
ViewportHeight(i) == ClientHeight(hist[i].value) * ScrollUnit(i)
LineHeightOf(i) == ScrollHeight(hist[i].value) * hist[i].scrollTop[2]
MarginOf(i) == 2 * LineHeightOf(i)
TargetTop(i) == LineHeightOf(i) * CbStartLine(hist[i].cb)
ScrollTopOf(i) == hist[i].scrollTop[1] * Len(hist[i].cb.newLines)
MaxScrollOf(i) == ContentHeight(i) - ViewportHeight(i)

\* The target line of step i is inside the margin band of its direction.
InBand(i) ==
  IF hist[i].direction = "up"
  THEN TargetTop(i) - MarginOf(i) >= ScrollTopOf(i)
  ELSE TargetTop(i) + LineHeightOf(i) + MarginOf(i) <= ScrollTopOf(i) + ViewportHeight(i)

\* The position the policy gives outside the band.
PolicyScrollTop(i) ==
  IF hist[i].direction = "up"
  THEN Max(0, TargetTop(i) - MarginOf(i))
  ELSE Min(MaxScrollOf(i), TargetTop(i) - ViewportHeight(i) + LineHeightOf(i) + MarginOf(i))

\* C16: scroll policy.  With lineHeight = contentHeight / lineCount, margin =
\* 2 * lineHeight and targetTop = lineHeight * newStartLine, a step whose
\* target line is inside the margin band of its direction leaves the scroll
\* position alone and issues no scroll; any other step gives
\* max(0, targetTop - margin) going up and
\* min(maxScroll, targetTop - viewportHeight + lineHeight + margin) going down.
C16_ScrollPolicy ==
  \A i \in 1..Len(hist) :
    hist[i].kind = "frame" =>
      IF InBand(i)
      THEN /\ PostScroll(i) = hist[i].scrollTop
           /\ CallsOf(i) = <<"setSelectionRange">>
      ELSE PostScroll(i)[1] * ScrollUnit(i) = PolicyScrollTop(i) * PostScroll(i)[2]

\* A step going up, its target line outside the band, scrolled to a position
\* above 0.
C16_Witness ==
  \E i \in 1..Len(hist) :
    /\ hist[i].kind = "frame"
    /\ ~InBand(i)
    /\ hist[i].direction = "up"
    /\ PolicyScrollTop(i) > 0
    /\ PostScroll(i) # hist[i].scrollTop

\* ------------------------------------------------------------------------ C17
\* The greatest line index whose first offset is at most offset.
GreatestLineAtOrBefore(ls, offset) ==
  CHOOSE k \in 0..(Len(ls) - 1) :
    /\ LineStart(ls, k) <= offset
    /\ \A m \in (k + 1)..(Len(ls) - 1) : LineStart(ls, m) > offset

\* C17: line resolution.  The line computed for an offset of the buffer, the
\* number of newlines before it, is the greatest i with lineOffsets[i] <=
\* offset, where lineOffsets[0] = 0 and lineOffsets[i] = lineOffsets[i-1] +
\* length(line[i-1]) + 1.  So a caret at column 0 of line i is on line i, not at
\* the end of line i-1; columns lie within [0, length of the line]; and
\* start <= end gives startLine <= endLine.
C17_LineResolution ==
  \A i \in 1..Len(hist) :
    hist[i].kind = "transpose" =>
      LET cb == hist[i].cb
          ls == LinesAt(i)
          start == hist[i].selectionStart
          end == hist[i].selectionEnd
      IN /\ \A k \in 0..(Len(ls) - 1) : LineOffsets(ls)[k + 1] = LineStart(ls, k)
         /\ cb.startLineNumber = LineOf(hist[i].value, start)
         /\ cb.endLineNumber = LineOf(hist[i].value, end)
         /\ cb.startLineNumber = GreatestLineAtOrBefore(ls, start)
         /\ cb.endLineNumber = GreatestLineAtOrBefore(ls, end)
         /\ \A k \in 0..(Len(ls) - 1) :
              start = LineStart(ls, k) => cb.startLineNumber = k
         /\ 0 <= cb.selectionStartOffset
         /\ cb.selectionStartOffset <= Len(Line(ls, cb.startLineNumber))
         /\ 0 <= cb.selectionEndOffset
         /\ cb.selectionEndOffset <= Len(Line(ls, cb.endLineNumber))
         /\ start <= end => cb.startLineNumber <= cb.endLineNumber

\* An operation on a selection that starts at column 0 of a line after the
\* first, right behind a newline, and ends on a later line.
C17_Witness ==
  \E i \in 1..Len(hist) :
    /\ hist[i].kind = "transpose"
    /\ hist[i].selectionStart > 0
    /\ hist[i].cb.selectionStartOffset = 0
    /\ hist[i].cb.startLineNumber > 0
    /\ hist[i].cb.endLineNumber > hist[i].cb.startLineNumber
    /\ hist[i].cb.selectionEndOffset > 0

\* ------------------------------------------------------------------------ C18
\* C18: scroll bounds and direction.  When 0 <= scrollTop <= maxScroll and
\* viewportHeight <= contentHeight, the position a step computes is within
\* [0, maxScroll]; a step going up never increases the position and a step
\* going down never decreases it.
C18_ScrollWithinBoundsAndDirection ==
  \A i \in 1..Len(hist) :
    (/\ hist[i].kind = "frame"
     /\ 0 <= ScrollTopOf(i)
     /\ ScrollTopOf(i) <= MaxScrollOf(i)
     /\ ViewportHeight(i) <= ContentHeight(i)) =>
      LET new == PostScroll(i)
          old == hist[i].scrollTop
          maxScroll == ScrollHeight(hist[i].value) - ClientHeight(hist[i].value)
      IN /\ 0 <= new[1]
         /\ new[1] <= maxScroll * new[2]
         /\ hist[i].direction = "up" => new[1] * old[2] <= old[1] * new[2]
         /\ hist[i].direction = "down" => new[1] * old[2] >= old[1] * new[2]

\* A step going down in a textarea scrolled short of maxScroll moved the
\* position to maxScroll, where the uncapped position lies beyond it.
C18_Witness ==
  \E i \in 1..Len(hist) :
    /\ hist[i].kind = "frame"
    /\ hist[i].direction = "down"
    /\ 0 <= ScrollTopOf(i)
    /\ ScrollTopOf(i) < MaxScrollOf(i)
    /\ TargetTop(i) - ViewportHeight(i) + LineHeightOf(i) + MarginOf(i) > MaxScrollOf(i)
    /\ PostScroll(i)[1] * ScrollUnit(i) = MaxScrollOf(i) * PostScroll(i)[2]

====
